---- MODULE Spec2Model ----
(***************************************************************************)
(* gitvcl: mirror of the deployed VCL files of a Varnish Controller into a *)
(* git working copy (src/main.py).  One run of main() is modelled as a     *)
(* sequence of steps, one per request / file operation that can fail, so   *)
(* that an abort between two steps is a state of the model.                *)
(***************************************************************************)
EXTENDS Integers, Sequences, FiniteSets, TLC

(* ------------------------------ bounds --------------------------------- *)
\* number of invocations of main() a behaviour contains
MaxRuns == 2
\* number of artifacts the controller lists
MaxFiles == 2
\* number of changes made on the controller between two runs
MaxEdits == 1

(* ------------------------------ values --------------------------------- *)
Absent == "<absent>"
\* file contents (decoded text); "" is the empty file
Contents == {"", "v1", "v2"}

\* the files an artifact name can denote, relative to save_folder: files
\* directly in save_folder, a file in its .git directory (one git does not
\* write itself), a file outside save_folder
TopNames == {"a.vcl", ".gitkeep"}
NestedNames == {".git/x"}
OutsideNames == {"../x"}
Paths == TopNames \cup NestedNames \cup OutsideNames

\* names that denote a file of Paths without being its plain name
AliasNames == {"./a.vcl"}
\* file['name'] as the controller sends it
Names == Paths \cup AliasNames

\* the file os.path.join(save_folder, name) denotes
join(name) == IF name = "./a.vcl" THEN "a.vcl" ELSE name

\* base64 text as the controller sends it
b64decode(s) ==
    CASE s = "" -> ""
      [] s = "djE=" -> "v1"
      [] s = "djI=" -> "v2"

\* hashlib.sha256(bytes).hexdigest(), first eight digits
sha256(c) ==
    CASE c = "" -> "e3b0c442"
      [] c = "v1" -> "3bfc2695"
      [] c = "v2" -> "fb04dcb6"

Digests == {sha256(c) : c \in Contents}

\* the payload fields of GET /files/{id}: a published file, a file that has
\* only a draft, a published file whose sha is that of its newer draft, and
\* a file without content
Payloads ==
    {[source |-> "djE=", draft |-> "", sha |-> sha256("v1")],
     [source |-> "", draft |-> "djI=", sha |-> sha256("v2")],
     [source |-> "djE=", draft |-> "djI=", sha |-> sha256("v2")],
     [source |-> "", draft |-> "", sha |-> sha256("")]}

Artifact(n, dep, p) ==
    [name |-> n, deployed |-> dep, source |-> p.source, draft |-> p.draft,
     sha |-> p.sha]

\* what GET /files/{id} returns, with the deployed flag of GET /files; the
\* payload of a file that is not deployed is never requested
Artifacts ==
    {Artifact(n, TRUE, p) : n \in Names, p \in Payloads}
    \cup {Artifact(n, FALSE, [source |-> "", draft |-> "djI=",
                              sha |-> sha256("v2")]) : n \in Names}

RemoteLists == UNION {[1..n -> Artifacts] : n \in 0..MaxFiles}

EmptyDir == [p \in Paths |-> Absent]
\* the save_folder before the first run: empty, or holding a file already
InitialDirs == {EmptyDir, [EmptyDir EXCEPT !["a.vcl"] = "v2"]}

EmptyTree == [p \in TopNames |-> Absent]

VARIABLES
    remote,           \* the controller's file list (index = id)
    disk,             \* path -> content or Absent
    gitInit,          \* save_folder/.git exists
    index,            \* paths registered in the git index
    head,             \* tree of the HEAD commit
    pending,          \* local commits not yet on origin
    pc,               \* position of main()
    push_to_repo,     \* settings['git']['push_to_repo'] of the current run
    commit_required,
    file_ids,
    files_to_backup,
    files_on_disk,
    i,                \* position of the retrieval loop in file_ids
    todo,             \* files_on_disk entries the cleanup loop has not visited
    \* history of the current run
    disk0,            \* disk when the run started
    written,          \* files write_file wrote
    deleted,          \* files os.remove deleted
    runCommits,       \* commits created by this run
    runPushes,        \* pushes attempted by this run
    failure,          \* which step aborted the run
    dirty0,           \* repo.is_dirty(untracked_files=True) when the run started
    stray0,           \* top-level files not in the head commit when the run started
    \* history across runs
    runs,             \* invocations of main() so far
    edits,            \* changes on the controller since the last run
    lastRun,          \* how the last run ended: "done" or the step that failed
    stable,           \* the last run completed and the controller is unchanged
    lastOk,           \* the controller's list at the last completed run
    owed              \* a push of an earlier run failed and none succeeded since

vars == <<remote, disk, gitInit, index, head, pending, pc, push_to_repo,
          commit_required, file_ids, files_to_backup, files_on_disk, i, todo,
          disk0, written, deleted, runCommits, runPushes, failure,
          dirty0, stray0, runs, edits, lastRun, stable, lastOk, owed>>

gitVars == <<gitInit, index, head, pending>>
loopVars == <<file_ids, files_to_backup, files_on_disk, i, todo>>
runHist == <<disk0, written, deleted, runCommits, runPushes, dirty0,
             stray0>>
crossHist == <<runs, edits, lastRun, stable, lastOk, owed>>

Init ==
    /\ remote \in RemoteLists
    /\ disk \in InitialDirs
    /\ gitInit = FALSE
    /\ index = {}
    /\ head = EmptyTree
    /\ pending = FALSE
    /\ pc = "idle"
    /\ push_to_repo = FALSE
    /\ commit_required = FALSE
    /\ file_ids = <<>>
    /\ files_to_backup = <<>>
    /\ files_on_disk = {}
    /\ i = 1
    /\ todo = {}
    /\ disk0 = disk
    /\ written = {}
    /\ deleted = {}
    /\ runCommits = 0
    /\ runPushes = 0
    /\ failure = "none"
    /\ runs = 0
    /\ edits = 0
    /\ lastRun = "none"
    /\ stable = FALSE
    /\ lastOk = [ok |-> FALSE, list |-> <<>>]
    /\ owed = FALSE
    /\ dirty0 = FALSE
    /\ stray0 = {}

(* ------------------------- pure helpers -------------------------------- *)
\* next(os.walk(save_folder))[2]: the regular files directly in save_folder
TopFiles(d) == {p \in TopNames : d[p] # Absent}

\* os.path.isfile(os.path.join(save_folder, name))
isfile(d, name) == d[join(name)] # Absent

\* the choice the other way round: the draft unless it is empty
file_source_draft_first(file) ==
    IF file.draft = "" THEN file.source ELSE file.draft

\* file['draft'] if file['source'] == "" else file['source']
file_source(file) == IF file.source = "" THEN file.draft ELSE file.source

\* process_file without the digest comparison: every retrieved file is written
process_file_nohash(file, d) == TRUE

\* process_file with the comparison inverted: writes the file that is current
process_file_inverted(file, d) ==
    IF isfile(d, file.name)
    THEN sha256(d[join(file.name)]) = file.sha
    ELSE TRUE

\* process_file that never overwrites a file that exists
process_file_keep(file, d) == ~isfile(d, file.name)

\* the test of process_file: TRUE when it calls write_file
process_file(file, d) ==
    IF isfile(d, file.name)
    THEN sha256(d[join(file.name)]) # file.sha
    ELSE TRUE

\* write_file(filename, b64decode(file_source).decode('utf-8'), save_folder)
write_file(file, d) ==
    [d EXCEPT ![join(file.name)] = b64decode(file_source(file))]

\* file_ids filled outside the "if file['deployed']" test
AllIds(r) == [k \in 1..Len(r) |-> k]

\* the ids of the entries of GET /files with deployed set, in list order
DeployedIds(r) == SelectSeq([k \in 1..Len(r) |-> k], LAMBDA k : r[k].deployed)

\* files_to_backup filled outside the "if file['deployed']" test
AllNames(r) == [k \in 1..Len(r) |-> r[k].name]

\* the names appended to files_to_backup, in list order
DeployedNames(r) == [k \in 1..Len(DeployedIds(r)) |-> r[DeployedIds(r)[k]].name]

Range(s) == {s[k] : k \in 1..Len(s)}

\* the top-level files that are untracked or differ from the head commit
Uncommitted(d, idx, h) ==
    {p \in TopNames : d[p] # Absent /\ (p \notin idx \/ d[p] # h[p])}

\* repo.is_dirty() without untracked_files=True
is_dirty_tracked_only(d, idx, h) ==
    \/ idx # {p \in TopNames : h[p] # Absent}
    \/ \E p \in idx : d[p] # h[p]

\* repo.is_dirty(untracked_files=True)
is_dirty(d, idx, h) ==
    \/ idx # {p \in TopNames : h[p] # Absent}          \* staged changes
    \/ \E p \in idx : d[p] # h[p]                       \* unstaged changes
    \/ \E p \in TopNames : d[p] # Absent /\ p \notin idx  \* untracked files

\* tree written by repo.git.add(A=True) followed by repo.index.commit
WorkTree(d) == [p \in TopNames |-> d[p]]

(* ------------------------------ a run ---------------------------------- *)
\* initialize_git_repo with an initial commit that has no .gitkeep file
StartRunNoMarker ==
    /\ pc = "idle"
    /\ runs < MaxRuns
    /\ \E push \in BOOLEAN, fetchOk \in BOOLEAN :
        /\ push_to_repo' = push
        /\ IF ~gitInit
           THEN /\ gitInit' = TRUE
                /\ disk' = disk
                /\ index' = {}
                /\ head' = EmptyTree
                /\ pending' = TRUE
           ELSE UNCHANGED <<gitVars, disk>>
        /\ disk0' = disk'
        /\ dirty0' = is_dirty(disk', index', head')
        /\ stray0' = Uncommitted(disk', index', head')
        /\ IF push /\ ~fetchOk
           THEN /\ pc' = "failed"
                /\ failure' = "init"
           ELSE /\ pc' = "login"
                /\ failure' = "none"
    /\ runs' = runs + 1
    /\ stable' = (lastRun = "done" /\ edits = 0)
    /\ edits' = 0
    /\ written' = {}
    /\ deleted' = {}
    /\ runCommits' = 0
    /\ runPushes' = 0
    /\ commit_required' = FALSE
    /\ UNCHANGED <<remote, loopVars, lastRun, lastOk, owed>>

\* main() up to the try block: initialize_git_repo
StartRun ==
    /\ pc = "idle"
    /\ runs < MaxRuns
    /\ \E push \in BOOLEAN, fetchOk \in BOOLEAN :
        /\ push_to_repo' = push
        /\ IF ~gitInit
           THEN /\ gitInit' = TRUE
                /\ disk' = [disk EXCEPT ![".gitkeep"] = ""]
                /\ index' = {".gitkeep"}
                /\ head' = [EmptyTree EXCEPT ![".gitkeep"] = ""]
                /\ pending' = TRUE
           ELSE UNCHANGED <<gitVars, disk>>
        /\ disk0' = disk'
        /\ dirty0' = is_dirty(disk', index', head')
        /\ stray0' = Uncommitted(disk', index', head')
        /\ IF push /\ ~fetchOk
           THEN /\ pc' = "failed"
                /\ failure' = "init"
           ELSE /\ pc' = "login"
                /\ failure' = "none"
    /\ runs' = runs + 1
    /\ stable' = (lastRun = "done" /\ edits = 0)
    /\ edits' = 0
    /\ written' = {}
    /\ deleted' = {}
    /\ runCommits' = 0
    /\ runPushes' = 0
    /\ commit_required' = FALSE
    /\ UNCHANGED <<remote, loopVars, lastRun, lastOk, owed>>

Abort(why) ==
    /\ pc' = "failed"
    /\ failure' = why

\* requests.post(.../auth/login) and raise_for_status
Login ==
    /\ pc = "login"
    /\ \E ok \in BOOLEAN :
        IF ok THEN pc' = "list" /\ UNCHANGED failure
              ELSE Abort("login")
    /\ UNCHANGED <<remote, disk, gitVars, push_to_repo, commit_required,
                   loopVars, runHist, crossHist>>

\* requests.get(.../files), the listing of save_folder and the filter loop
ListFiles ==
    /\ pc = "list"
    /\ \E ok \in BOOLEAN :
        IF ok
        THEN /\ pc' = "retrieve"
             /\ file_ids' = DeployedIds(remote)
             /\ files_to_backup' = DeployedNames(remote)
             /\ files_on_disk' = TopFiles(disk)
             /\ i' = 1
             /\ todo' = TopFiles(disk)
             /\ UNCHANGED failure
        ELSE /\ Abort("list")
             /\ UNCHANGED loopVars
    /\ UNCHANGED <<remote, disk, gitVars, push_to_repo, commit_required,
                   runHist, crossHist>>

\* one iteration of "for vclfile_id in file_ids" whose request succeeds
ProcessFile ==
    /\ pc = "retrieve"
    /\ i <= Len(file_ids)
    /\ LET file == remote[file_ids[i]] IN
        IF process_file(file, disk)
        THEN \E wrote \in BOOLEAN :
               IF wrote
               THEN /\ disk' = write_file(file, disk)
                    /\ written' = written \cup {join(file.name)}
                    /\ commit_required' = TRUE
                    /\ i' = i + 1
                    /\ UNCHANGED <<pc, failure>>
               ELSE \* open() raises OSError: nothing is written
                    /\ Abort("write")
                    /\ UNCHANGED <<disk, written, commit_required, i>>
        ELSE /\ i' = i + 1
             /\ UNCHANGED <<disk, written, commit_required, pc, failure>>
    /\ UNCHANGED <<remote, gitVars, push_to_repo, file_ids, files_to_backup,
                   files_on_disk, todo, disk0, deleted, runCommits, runPushes,
                   dirty0, stray0, crossHist>>

\* the request error caught inside the loop, which then goes on
RetrieveFailSwallowed ==
    /\ pc = "retrieve"
    /\ i <= Len(file_ids)
    /\ failure' = "retrieve"
    /\ i' = i + 1
    /\ UNCHANGED <<remote, disk, gitVars, pc, push_to_repo, commit_required,
                   file_ids, files_to_backup, files_on_disk, todo, runHist,
                   crossHist>>

\* one iteration of the loop whose request or raise_for_status raises
RetrieveFail ==
    /\ pc = "retrieve"
    /\ i <= Len(file_ids)
    /\ Abort("retrieve")
    /\ UNCHANGED <<remote, disk, gitVars, push_to_repo, commit_required,
                   loopVars, runHist, crossHist>>

\* the cleanup entered from inside the retrieval loop
EndRetrieveEarly ==
    /\ pc = "retrieve"
    /\ pc' = "cleanup"
    /\ UNCHANGED <<remote, disk, gitVars, push_to_repo, commit_required,
                   loopVars, runHist, crossHist, failure>>

\* the retrieval loop is exhausted
EndRetrieve ==
    /\ pc = "retrieve"
    /\ i > Len(file_ids)
    /\ pc' = "cleanup"
    /\ UNCHANGED <<remote, disk, gitVars, push_to_repo, commit_required,
                   loopVars, runHist, crossHist, failure>>

\* one iteration of "for file in files_on_disk" (os.walk gives no order)
Cleanup ==
    /\ pc = "cleanup"
    /\ \E file \in todo :
        /\ todo' = todo \ {file}
        /\ IF file \notin Range(files_to_backup)
           THEN \E removed \in BOOLEAN :
                  IF ~removed
                  THEN \* os.remove raises OSError
                       /\ Abort("remove")
                       /\ UNCHANGED <<disk, deleted, index, commit_required>>
                  ELSE /\ disk' = [disk EXCEPT ![file] = Absent]
                       /\ deleted' = deleted \cup {file}
                       /\ IF file \in index
                          THEN /\ index' = index \ {file}
                               /\ commit_required' = TRUE
                               /\ UNCHANGED <<pc, failure>>
                          ELSE \* git rm --cached: pathspec matches no file
                               /\ Abort("remove")
                               /\ UNCHANGED <<index, commit_required>>
           ELSE UNCHANGED <<disk, deleted, index, commit_required, pc, failure>>
    /\ UNCHANGED <<remote, gitInit, head, pending, push_to_repo, file_ids,
                   files_to_backup, files_on_disk, i, disk0, written,
                   runCommits, runPushes, dirty0, stray0, crossHist>>

\* the commit made without the test
CommitAlways ==
    /\ pc = "cleanup"
    /\ todo = {}
    /\ index' = TopFiles(disk)
    /\ head' = WorkTree(disk)
    /\ pending' = TRUE
    /\ runCommits' = runCommits + 1
    /\ pc' = IF push_to_repo THEN "push" ELSE "done"
    /\ UNCHANGED <<remote, disk, gitInit, push_to_repo, commit_required,
                   loopVars, disk0, written, deleted, runPushes, dirty0,
                   stray0, failure, crossHist>>

\* the commit test without repo.is_dirty: "if commit_required"
CommitFlagOnly ==
    /\ pc = "cleanup"
    /\ todo = {}
    /\ IF commit_required
       THEN /\ index' = TopFiles(disk)
            /\ head' = WorkTree(disk)
            /\ pending' = TRUE
            /\ runCommits' = runCommits + 1
            /\ pc' = IF push_to_repo THEN "push" ELSE "done"
       ELSE /\ pc' = "done"
            /\ UNCHANGED <<index, head, pending, runCommits>>
    /\ UNCHANGED <<remote, disk, gitInit, push_to_repo, commit_required,
                   loopVars, disk0, written, deleted, runPushes, dirty0,
                   stray0, failure, crossHist>>

\* the commit branch with the push taken out of "if push_to_repo"
CommitPushAnyway ==
    /\ pc = "cleanup"
    /\ todo = {}
    /\ IF commit_required \/ is_dirty(disk, index, head)
       THEN /\ index' = TopFiles(disk)
            /\ head' = WorkTree(disk)
            /\ pending' = TRUE
            /\ runCommits' = runCommits + 1
            /\ pc' = "push"
       ELSE /\ pc' = "done"
            /\ UNCHANGED <<index, head, pending, runCommits>>
    /\ UNCHANGED <<remote, disk, gitInit, push_to_repo, commit_required,
                   loopVars, disk0, written, deleted, runPushes, dirty0,
                   stray0, failure, crossHist>>

\* "if commit_required or repo.is_dirty(untracked_files=True)" up to the push
Commit ==
    /\ pc = "cleanup"
    /\ todo = {}
    /\ IF commit_required \/ is_dirty(disk, index, head)
       THEN /\ index' = TopFiles(disk)
            /\ head' = WorkTree(disk)
            /\ pending' = TRUE
            /\ runCommits' = runCommits + 1
            /\ pc' = IF push_to_repo THEN "push" ELSE "done"
       ELSE /\ pc' = "done"
            /\ UNCHANGED <<index, head, pending, runCommits>>
    /\ UNCHANGED <<remote, disk, gitInit, push_to_repo, commit_required,
                   loopVars, disk0, written, deleted, runPushes, dirty0,
                   stray0, failure, crossHist>>

\* a push whose failure is answered by undoing the run
PushRollback ==
    /\ pc = "push"
    /\ runPushes' = runPushes + 1
    /\ \E ok \in BOOLEAN, raised \in BOOLEAN :
        IF ok
        THEN /\ pending' = FALSE
             /\ pc' = "done"
             /\ UNCHANGED <<failure, disk>>
        ELSE /\ pending' = FALSE
             /\ disk' = disk0
             /\ failure' = "push"
             /\ pc' = IF raised THEN "failed" ELSE "done"
    /\ UNCHANGED <<remote, gitInit, index, head, push_to_repo,
                   commit_required, loopVars, disk0, written, deleted,
                   runCommits, dirty0, stray0, crossHist>>

\* repo.remotes.origin.push()
Push ==
    /\ pc = "push"
    /\ runPushes' = runPushes + 1
    /\ \E ok \in BOOLEAN, raised \in BOOLEAN :
        IF ok
        THEN /\ pending' = FALSE
             /\ pc' = "done"
             /\ UNCHANGED failure
        ELSE \* the push is refused: GitPython reports it in the result
             \* or raises GitCommandError, depending on its version
             /\ UNCHANGED pending
             /\ failure' = "push"
             /\ pc' = IF raised THEN "failed" ELSE "done"
    /\ UNCHANGED <<remote, disk, gitInit, index, head, push_to_repo,
                   commit_required, loopVars, disk0, written, deleted,
                   runCommits, dirty0, stray0, crossHist>>

\* the set of (name, sha) of the deployed artifacts
Deployed(r) == {<<r[k].name, r[k].sha>> : k \in Range(DeployedIds(r))}

\* main() returns (or the process dies); the next invocation is a new run
Finish ==
    /\ pc \in {"done", "failed"}
    /\ pc' = "idle"
    /\ lastRun' = IF pc = "done" THEN "done" ELSE failure
    /\ lastOk' = IF pc = "done"
                 THEN [ok |-> TRUE, list |-> remote]
                 ELSE lastOk
    /\ owed' = (failure = "push" \/ (owed /\ pending))
    /\ dirty0' = FALSE
    /\ stray0' = {}
    /\ push_to_repo' = FALSE
    /\ commit_required' = FALSE
    /\ file_ids' = <<>>
    /\ files_to_backup' = <<>>
    /\ files_on_disk' = {}
    /\ i' = 1
    /\ todo' = {}
    /\ disk0' = disk
    /\ written' = {}
    /\ deleted' = {}
    /\ runCommits' = 0
    /\ runPushes' = 0
    /\ failure' = "none"
    /\ stable' = FALSE
    /\ UNCHANGED <<remote, disk, gitVars, runs, edits>>

(* --------------------------- the controller ---------------------------- *)
\* between two runs an operator deploys, undeploys, edits, adds or removes
\* a file on the controller
RemoteChange ==
    /\ pc = "idle"
    /\ runs < MaxRuns
    /\ edits < MaxEdits
    /\ \/ \E k \in 1..Len(remote), f \in Artifacts :
            /\ f # remote[k]
            /\ remote' = [remote EXCEPT ![k] = f]
       \/ \E f \in Artifacts :
            /\ Len(remote) < MaxFiles
            /\ remote' = Append(remote, f)
       \/ /\ Len(remote) > 0
          /\ remote' = SubSeq(remote, 1, Len(remote) - 1)
    /\ edits' = edits + 1
    /\ UNCHANGED <<disk, gitVars, pc, push_to_repo, commit_required, loopVars,
                   runHist, failure, runs, lastRun, stable, lastOk, owed>>

Next ==
    \/ StartRun
    \/ Login
    \/ ListFiles
    \/ ProcessFile
    \/ RetrieveFail
    \/ EndRetrieve
    \/ Cleanup
    \/ Commit
    \/ Push
    \/ Finish
    \/ RemoteChange

Spec == Init /\ [][Next]_vars

(* ------------------------------ claims --------------------------------- *)
\* no two deployed artifacts denote the same file
UniqueFiles(r) ==
    \A j, k \in Range(DeployedIds(r)) :
        j # k => join(r[j].name) # join(r[k].name)

\* every deployed name is a plain file name, without a directory part
PlainNames(r) == Range(DeployedNames(r)) \subseteq TopNames

\* every deployed artifact's sha is the SHA-256 of the content written for it
ShaOfPayload(r) ==
    \A k \in Range(DeployedIds(r)) :
        r[k].sha = sha256(b64decode(file_source(r[k])))

NoOp == written = {} /\ deleted = {} /\ ~commit_required /\ runCommits = 0

\* C1 as stated: a run that follows a completed run, with the controller's
\* list and the directory unchanged in between, writes no file, deletes no
\* file, leaves commit_required false and creates no commit.
C1_IdempotentAnyList == stable => NoOp

\* the list names plain files only, each once, with the sha of its content
WellFormed(r) == UniqueFiles(r) /\ PlainNames(r) /\ ShaOfPayload(r)

\* C1 as amended: the same, for a list whose deployed names are pairwise
\* distinct plain file names and whose sha fields are the digests of the
\* effective payloads.
C1_Idempotent == (stable /\ WellFormed(remote)) => NoOp

C1_Witness ==
    /\ pc = "done"
    /\ stable
    /\ WellFormed(remote)
    /\ Len(DeployedIds(remote)) = 2
    /\ NoOp

RunEnded == pc \in {"done", "failed"}

\* C2 as stated: a run that wrote and deleted nothing and started from a
\* clean working tree creates no commit; a run that wrote or deleted at least
\* one file creates exactly one commit.
C2_CommitGatingAnyRun ==
    RunEnded =>
        /\ (written = {} /\ deleted = {} /\ ~dirty0) => runCommits = 0
        /\ (written # {} \/ deleted # {}) => runCommits = 1

\* C2 as amended: a run that wrote and deleted nothing and started from a
\* clean working tree creates no commit; a run that completes and wrote or
\* deleted at least one file creates exactly one commit.
C2_CommitGating ==
    /\ (written = {} /\ deleted = {} /\ ~dirty0) => runCommits = 0
    /\ (pc = "done" /\ (written # {} \/ deleted # {})) => runCommits = 1

C2_Witness ==
    /\ pc = "done"
    /\ Cardinality(written) = 2
    /\ deleted # {}
    /\ runCommits = 1

\* the same gate on the side that makes no commit
C2_WitnessNoCommit ==
    /\ pc = "done"
    /\ written = {} /\ deleted = {} /\ ~dirty0
    /\ Len(file_ids) > 0
    /\ runCommits = 0

OrphansDeleted ==
    \A f \in TopFiles(disk0) :
        f \notin Range(DeployedNames(remote)) => disk[f] = Absent

\* C3 as stated: after a run that completes, every top-level file present at
\* the start whose name is not a deployed artifact's is deleted, and the
\* top-level files are exactly the deployed artifact names.
C3_OrphanCleanupAllNames ==
    pc = "done" =>
        /\ OrphansDeleted
        /\ TopFiles(disk) = Range(DeployedNames(remote))

\* C3 as amended: after a run that completes, every top-level file present
\* at the start whose name is not a deployed artifact's is deleted and every
\* deployed plain file name is a top-level file; when all deployed names are
\* plain file names, the top-level files are exactly the deployed names.
C3_OrphanCleanup ==
    pc = "done" =>
        /\ OrphansDeleted
        /\ Range(DeployedNames(remote)) \cap TopNames \subseteq TopFiles(disk)
        /\ PlainNames(remote) => TopFiles(disk) = Range(DeployedNames(remote))

\* the file of an artifact that was deployed at the last completed run and is
\* not any more has been deleted, while another file is kept
C3_Witness ==
    /\ pc = "done"
    /\ \E sha \in Digests : <<"a.vcl", sha>> \in Deployed(lastOk.list)
    /\ "a.vcl" \in deleted
    /\ TopFiles(disk) = {".gitkeep"}

\* C4: when a retrieval fails, the mirror directory is as it was when the
\* run started.
C4_NoPartialApplication == failure = "retrieve" => disk = disk0

\* C5: a run that login, the listing, a retrieval, a file write or a
\* deletion aborts has created no commit and attempted no push.
C5_NoCommitOnAbort ==
    failure \in {"login", "list", "retrieve", "write", "remove"} =>
        runCommits = 0 /\ runPushes = 0

\* a retrieval fails after a file has been written, which leaves the working
\* tree with an uncommitted change
C5_Witness ==
    /\ pc = "failed"
    /\ failure = "retrieve"
    /\ written # {}
    /\ is_dirty(disk, index, head)

\* C6, for lists that are well formed and runs that complete or are aborted
\* by a request: between runs the files of the mirror directory are the
\* artifacts deployed at the last completed run, each with the digest the
\* controller reported at that run.
C6_MirrorAtRest ==
    (/\ pc = "idle"
     /\ lastOk.ok
     /\ WellFormed(lastOk.list)
     /\ lastRun \in {"done", "init", "login", "list", "retrieve"}) =>
        /\ TopFiles(disk) = {f[1] : f \in Deployed(lastOk.list)}
        /\ \A f \in Deployed(lastOk.list) :
               disk[f[1]] # Absent /\ sha256(disk[f[1]]) = f[2]

\* C7: no run writes or deletes a file outside the mirror root.
C7_PathContainment == (written \cup deleted) \cap OutsideNames = {}

\* the local file of artifact k is current when the run starts
Current(k) ==
    /\ isfile(disk0, remote[k].name)
    /\ sha256(disk0[join(remote[k].name)]) = remote[k].sha

Untouched(k) ==
    /\ join(remote[k].name) \notin written
    /\ disk[join(remote[k].name)] = disk0[join(remote[k].name)]

\* C8 as stated: a deployed artifact whose local file exists with the digest
\* the controller reports is not written, and its content is the same before
\* and after the run.
C8_NoOpStabilityAnyList ==
    \A k \in Range(DeployedIds(remote)) : Current(k) => Untouched(k)

\* C8 as amended: the same, for a deployed artifact whose name is a plain
\* file name and whose file no other deployed artifact denotes.
C8_NoOpStability ==
    \A k \in Range(DeployedIds(remote)) :
        (/\ Current(k)
         /\ remote[k].name \in TopNames
         /\ \A j \in Range(DeployedIds(remote)) :
                j # k => join(remote[j].name) # join(remote[k].name))
            => Untouched(k)

\* a run completes that wrote another file and left the current one alone
C8_Witness ==
    /\ pc = "done"
    /\ written # {}
    /\ \E k \in Range(DeployedIds(remote)) :
        /\ Current(k)
        /\ remote[k].name \in TopNames
        /\ join(remote[k].name) \notin written

\* C9: a push-enabled run that completes while the push of an earlier run's
\* commit is still owed pushes.
C9_PendingPushed == (pc = "done" /\ push_to_repo /\ owed) => runPushes >= 1

\* C10: after a failed push the commit of the run is in the local history and
\* holds the working tree as the run left it: the files written (and not
\* deleted by the cleanup that follows) are there, the files deleted are gone.
C10_PushFailureKeepsCommit ==
    failure = "push" =>
        /\ runCommits = 1
        /\ pending
        /\ head = WorkTree(disk)
        /\ \A n \in written \ deleted : disk[n] # Absent
        /\ \A n \in deleted : disk[n] = Absent

C10_Witness ==
    /\ failure = "push"
    /\ written # {}
    /\ deleted # {}

\* the entries of the controller's list whose deployed flag is set / not set
IsDeployed == {k \in 1..Len(remote) : remote[k].deployed}
NotDeployed == {k \in 1..Len(remote) : ~remote[k].deployed}

\* C11: no artifact whose deployed flag is false is retrieved, no file is
\* written that is not the file of a deployed artifact, and after a run that
\* completes a top-level file that has only the name of an artifact that is
\* not deployed is deleted.
C11_NonDeployedIgnored ==
    /\ Range(file_ids) \subseteq IsDeployed
    /\ written \subseteq {join(remote[k].name) : k \in IsDeployed}
    /\ pc = "done" =>
         \A k \in NotDeployed :
            (/\ remote[k].name \in TopFiles(disk0)
             /\ \A j \in IsDeployed : remote[j].name # remote[k].name)
                => disk[remote[k].name] = Absent

\* a run completes that wrote a deployed file and deleted the file named
\* like an artifact that is not deployed
C11_Witness ==
    /\ pc = "done"
    /\ written # {}
    /\ \E k \in NotDeployed :
        /\ remote[k].name = "a.vcl"
        /\ "a.vcl" \in deleted

\* the run got as far as the commit test
ReachedCommit == pc = "done" \/ failure = "push"

\* C12 as stated: a run that wrote and deleted nothing and found an
\* uncommitted top-level file in the working tree when it started creates
\* exactly one commit, and that commit contains the file.
C12_StrayCommittedAnyRun ==
    (RunEnded /\ written = {} /\ deleted = {} /\ stray0 # {}) =>
        /\ runCommits = 1
        /\ \A p \in stray0 : head[p] = disk0[p]

\* C12 as amended: a run that is not aborted before the commit test, wrote
\* and deleted nothing and found an uncommitted top-level file in the working
\* tree when it started creates exactly one commit, and that commit contains
\* the file.
C12_StrayCommitted ==
    (ReachedCommit /\ written = {} /\ deleted = {} /\ stray0 # {}) =>
        /\ runCommits = 1
        /\ \A p \in stray0 : head[p] = disk0[p]

\* a run with deployed artifacts completes without a write or a deletion
\* and commits the file it found uncommitted
C12_Witness ==
    /\ pc = "done"
    /\ written = {} /\ deleted = {}
    /\ ~commit_required
    /\ Len(file_ids) > 0
    /\ "a.vcl" \in stray0
    /\ head["a.vcl"] = "v2"
    /\ runCommits = 1

\* one step of a run, as far as the order of its stages goes
StageOrder ==
    /\ (pc \notin {"idle", "done", "failed"}
          /\ (disk' # disk \/ written' # written \/ deleted' # deleted))
         => runCommits = 0 /\ runPushes = 0
    /\ runCommits' > runCommits
         => /\ runCommits = 0 /\ runPushes = 0
            /\ i > Len(file_ids) /\ todo = {}
    /\ runPushes' > runPushes
         => runCommits = 1 /\ runPushes = 0 /\ push_to_repo

\* C13: within a run every file write and every deletion precedes the
\* commit, the commit is made after both loops have finished, a push is made
\* only after the commit of that run and only when push is enabled, and a run
\* makes at most one commit and at most one push.
C13_StageOrder == [][StageOrder]_vars

\* a pushing run that wrote, deleted, committed and pushed has completed
C13_Witness ==
    /\ pc = "done"
    /\ push_to_repo
    /\ written # {} /\ deleted # {}
    /\ runCommits = 1 /\ runPushes = 1
    /\ failure = "none"

\* the decoded published payload when there is one, else the decoded draft
EffectivePayload(file) ==
    IF file.source # "" THEN b64decode(file.source) ELSE b64decode(file.draft)

\* the last entry of the list that is deployed under the name of entry k
LastOfName(k) ==
    CHOOSE j \in IsDeployed :
        /\ remote[j].name = remote[k].name
        /\ \A m \in IsDeployed : remote[m].name = remote[k].name => m <= j

\* entry k is deployed and shares its name with another deployed entry
Duplicated(k) ==
    /\ k \in IsDeployed
    /\ \E j \in IsDeployed : j # k /\ remote[j].name = remote[k].name

\* C14 as stated: after a run that completes, the file of a name that two or
\* more deployed artifacts share holds the effective payload of the last of
\* them in list order.
C14_LastWriteWinsAnyList ==
    pc = "done" =>
        \A k \in 1..Len(remote) :
            Duplicated(k) =>
                disk[join(remote[k].name)]
                    = EffectivePayload(remote[LastOfName(k)])

\* C14 as amended: the same, when the shared name is a plain file name, no
\* deployed artifact of another name denotes the same file, and the sha of
\* the last artifact of that name is the SHA-256 of its effective payload.
C14_LastWriteWins ==
    pc = "done" =>
        \A k \in 1..Len(remote) :
            (/\ Duplicated(k)
             /\ remote[k].name \in TopNames
             /\ \A j \in IsDeployed :
                    join(remote[j].name) = join(remote[k].name)
                        => remote[j].name = remote[k].name
             /\ remote[LastOfName(k)].sha
                    = sha256(EffectivePayload(remote[LastOfName(k)])))
                => disk[remote[k].name]
                       = EffectivePayload(remote[LastOfName(k)])

\* two deployed artifacts named a.vcl with different payloads were both
\* written to a file that did not exist, and the second one's content stays
C14_Witness ==
    /\ pc = "done"
    /\ Len(remote) = 2
    /\ Duplicated(1)
    /\ remote[1].name = "a.vcl"
    /\ EffectivePayload(remote[1]) # EffectivePayload(remote[2])
    /\ disk0["a.vcl"] = Absent
    /\ disk["a.vcl"] = EffectivePayload(remote[2])

\* a step of the retrieval loop in which process_file returns
ProcessStep ==
    /\ pc = "retrieve"
    /\ i <= Len(file_ids)
    /\ i' = i + 1

\* what process_file may do to the directory for the artifact file
Processed(file) ==
    /\ (disk' # disk \/ written' # written) =>
          /\ disk' = [disk EXCEPT
                        ![join(file.name)] = EffectivePayload(file)]
          /\ join(file.name) \in written'
    /\ ~isfile(disk, file.name) =>
          /\ disk'[join(file.name)] = EffectivePayload(file)
          /\ join(file.name) \in written'

\* C15: whenever process_file writes a file, the content written is the
\* decoded source if the source is not empty and the decoded draft otherwise,
\* and nothing else in the directory changes; an artifact that has no local
\* file is written even when that content is empty.
C15_EffectivePayload ==
    [][ProcessStep => Processed(remote[file_ids[i]])]_vars

\* a run wrote an empty file for an artifact that had none, and wrote the
\* source of an artifact that has both a source and a draft
C15_Witness ==
    /\ pc = "done"
    /\ \E k \in IsDeployed :
        /\ EffectivePayload(remote[k]) = ""
        /\ disk0[join(remote[k].name)] = Absent
        /\ join(remote[k].name) \in written
        /\ disk[join(remote[k].name)] = ""
    /\ \E k \in IsDeployed :
        /\ remote[k].source # "" /\ remote[k].draft # ""
        /\ join(remote[k].name) \in written
        /\ disk[join(remote[k].name)] = b64decode(remote[k].source)

\* every top-level file is in the index and in the head commit with the
\* content it has in the directory, and they hold no other file
Committed ==
    /\ \A p \in TopNames : head[p] = disk[p]
    /\ index = {p \in TopNames : disk[p] # Absent}

\* C16: after a run that completes, the working tree has no uncommitted
\* change: what the run wrote or deleted and what an earlier aborted run
\* left behind is in the head commit, whether or not this run committed.
C16_CleanAfterRun == pc = "done" => Committed

\* a run that follows an aborted one completes without writing or deleting
\* anything and has committed the file the aborted run left uncommitted
C16_Witness ==
    /\ pc = "done"
    /\ runs = 2
    /\ lastRun \notin {"none", "done"}
    /\ written = {} /\ deleted = {}
    /\ \E p \in stray0 : head[p] = disk[p] /\ disk[p] # Absent
    /\ runCommits = 1

\* the run was aborted before the cleanup loop
AbortedEarly == failure \in {"init", "login", "list", "retrieve", "write"}

\* C17: a file is deleted only when every deployed artifact of the run has
\* been retrieved and processed; a run that is aborted by the remote fetch,
\* the login, the listing, a retrieval or a write has deleted no file, and
\* every top-level file it found is still there.
C17_DeleteAfterRetrieve ==
    /\ deleted # {} => i > Len(file_ids)
    /\ AbortedEarly =>
          /\ deleted = {}
          /\ \A f \in TopFiles(disk0) : disk[f] # Absent

\* the second retrieval of a run failed after the first one was written,
\* and a file that no deployed artifact names is still in the directory
C17_Witness ==
    /\ pc = "failed"
    /\ failure = "retrieve"
    /\ i = 2
    /\ written # {}
    /\ \E f \in TopFiles(disk0) :
        /\ f \notin Range(files_to_backup)
        /\ disk[f] # Absent

\* no run has completed since the repository was initialised
FirstCompletion == pc = "done" /\ ~lastOk.ok

\* no run has got as far as the commit test since the repository was
\* initialised: none completed, and none was aborted by a failing push
FirstCommitTest == ReachedCommit /\ ~lastOk.ok /\ ~owed

\* no deployed artifact is named .gitkeep
MarkerOrphan == \A k \in IsDeployed : remote[k].name # ".gitkeep"

\* C18 as stated: the first run that completes after the repository was
\* initialised deletes .gitkeep, unless a deployed artifact has that name,
\* and creates a commit; a run that follows a completed run with the
\* controller's list unchanged creates none.
C18_MarkerRemovedAnyList ==
    /\ (FirstCompletion /\ MarkerOrphan) =>
          ".gitkeep" \in deleted /\ runCommits = 1
    /\ stable => runCommits = 0

\* C18 as amended: the first run that gets as far as the commit test after
\* the repository was initialised ends without a .gitkeep file in the
\* directory and in the head commit, unless a deployed artifact has that
\* name, having deleted the file itself if it was still there, and creates a
\* commit; a run that follows a completed run with the controller's list
\* unchanged creates none when the deployed names are pairwise distinct plain
\* file names and the sha fields are the digests of the effective payloads.
C18_MarkerRemoved ==
    /\ (FirstCommitTest /\ MarkerOrphan) =>
          /\ disk[".gitkeep"] = Absent
          /\ head[".gitkeep"] = Absent
          /\ disk0[".gitkeep"] # Absent => ".gitkeep" \in deleted
          /\ runCommits = 1
    /\ (stable /\ WellFormed(remote)) => runCommits = 0

\* the first run, against a controller without a deployed artifact, has
\* deleted .gitkeep and committed
C18_Witness ==
    /\ pc = "done"
    /\ runs = 1
    /\ IsDeployed = {}
    /\ deleted = {".gitkeep"}
    /\ written = {}
    /\ runCommits = 1

====
